---- MODULE Spec2Model ----
(***************************************************************************)
(* Model of adapter/uagde.py: UncertaintyAwareGradualDomainEnsemble.       *)
(*                                                                         *)
(* Numbers.  Tensors of reals are modelled exactly: a real is a reduced    *)
(* fraction <<n, d>> with d > 0, a tensor row is a sequence of fractions.  *)
(* Logits are integers in units of ln 2, so softmax is exact:              *)
(* softmax(l)[c] = 2^l[c] / SUM_k 2^l[k].  Logarithms (entropy, nll) are   *)
(* fixed point in units of 1/1000 nat.                                     *)
(*                                                                         *)
(* Collaborators.  The network is a parameter state and a fixed map from   *)
(* (parameters, example id) to logits; optimizer.step() and the validator  *)
(* score are nondeterministic.  The SummaryWriter, the printed lines and   *)
(* the train()/eval() mode flag hold no state that the adapter reads back  *)
(* and are left out, except the values line 126 prints (log).              *)
(* An exception that leaves adapt ends the run (pc = "error").             *)
(***************************************************************************)
EXTENDS Integers, Sequences, FiniteSets, TLC

----------------------------------------------------------------------------
(* Bounds of the model *)

NumDomains == 2     \* keys of domain2trainloader are 1..NumDomains
DomainSize == 3     \* examples per domain loader
BatchSize  == 2     \* loader batch size (the last batch may be partial)
NumParams  == 2     \* distinct parameter states of the network
NumScores  == 2     \* distinct values of the unsupervised score
MaxSweep   == 2     \* longest confidence_q_list
MaxEpochs  == 1     \* largest args.adapt_epochs
MaxAdapts  == 2     \* calls of adapt in one run

----------------------------------------------------------------------------
(* Exact arithmetic on fractions *)

Abs(x) == IF x < 0 THEN -x ELSE x

RECURSIVE GCD(_, _)
GCD(a, b) == IF b = 0 THEN a ELSE GCD(b, a % b)

Rat(n, d) ==
    LET g == GCD(Abs(n), Abs(d))
        s == IF d < 0 THEN -1 ELSE 1
    IN  IF n = 0 THEN <<0, 1>> ELSE <<s * (n \div g), s * (d \div g)>>

RAdd(x, y) == Rat(x[1] * y[2] + y[1] * x[2], x[2] * y[2])
RSub(x, y) == Rat(x[1] * y[2] - y[1] * x[2], x[2] * y[2])
RMul(x, y) == Rat(x[1] * y[1], x[2] * y[2])
RDiv(x, y) == Rat(x[1] * y[2], x[2] * y[1])
RLeq(x, y) == x[1] * y[2] <= y[1] * x[2]
RLess(x, y) == x[1] * y[2] < y[1] * x[2]
RAbs(x) == <<Abs(x[1]), x[2]>>
RZero == <<0, 1>>
ROne == <<1, 1>>

RECURSIVE RSum(_)
RSum(s) == IF s = <<>> THEN RZero ELSE RAdd(Head(s), RSum(Tail(s)))

RECURSIVE ISum(_)
ISum(s) == IF s = <<>> THEN 0 ELSE Head(s) + ISum(Tail(s))

RECURSIVE Pow2(_)
Pow2(k) == IF k = 0 THEN 1 ELSE 2 * Pow2(k - 1)

\* torch.amax / torch.amin / torch.argmax along dim 1 (argmax: first maximum)
RECURSIVE RMax(_)
RMax(s) == IF Len(s) = 1 THEN s[1]
           ELSE LET m == RMax(Tail(s)) IN IF RLess(s[1], m) THEN m ELSE s[1]

RECURSIVE RMin(_)
RMin(s) == IF Len(s) = 1 THEN s[1]
           ELSE LET m == RMin(Tail(s)) IN IF RLess(m, s[1]) THEN m ELSE s[1]

ArgMax(row) == CHOOSE c \in 1..Len(row) :
                  /\ row[c] = RMax(row)
                  /\ \A k \in 1..(c - 1) : row[k] # RMax(row)

----------------------------------------------------------------------------
(* Fixed-point natural logarithm: LnMilli(n) ~ 1000 * ln(n), n >= 1 *)

RECURSIVE Log2Floor(_)
Log2Floor(n) == IF n < 2 THEN 0 ELSE 1 + Log2Floor(n \div 2)

\* fractional bits of log2 by repeated squaring; x is a mantissa in
\* [4096, 8192) (12 fractional bits), j the number of bits still to produce
RECURSIVE Log2Frac(_, _)
Log2Frac(x, j) ==
    IF j = 0 THEN 0
    ELSE LET sq == (x * x) \div 4096
         IN  IF sq >= 8192
             THEN Pow2(j - 1) + Log2Frac(sq \div 2, j - 1)
             ELSE Log2Frac(sq, j - 1)

LnMilli(n) ==
    LET k == Log2Floor(n)
        x == IF k >= 12 THEN n \div Pow2(k - 12) ELSE n * Pow2(12 - k)
    IN  ((k * 1024 + Log2Frac(x, 10)) * 693) \div 1024

----------------------------------------------------------------------------
(* The data: domain2trainloader *)

Domains == 1..NumDomains
Ids == 1..(NumDomains * DomainSize)

NumBatches == (DomainSize + BatchSize - 1) \div BatchSize

\* the example ids (idx) of batch k of the loader of domain d
Batch(d, k) ==
    LET first == (d - 1) * DomainSize + (k - 1) * BatchSize + 1
        last  == IF k * BatchSize < DomainSize
                 THEN (d - 1) * DomainSize + k * BatchSize
                 ELSE d * DomainSize
    IN  [j \in 1..(last - first + 1) |-> first + j - 1]

\* the loader of domain d: a finite restartable sequence of batches
Loader(d) == [k \in 1..NumBatches |-> Batch(d, k)]

\* every example id of a loader, in loader order
RECURSIVE Flatten(_)
Flatten(batches) ==
    IF batches = <<>> THEN <<>> ELSE Head(batches) \o Flatten(Tail(batches))

LoaderIds(d) == Flatten(Loader(d))

DomainOf(id) == ((id - 1) \div DomainSize) + 1

\* ground-truth label y of an example (used by the oracle diagnostics only)
Label(id) == (id % 2) + 1

----------------------------------------------------------------------------
(* The network: model(data).  A parameter state is a number in Params; the  *)
(* logits it produces for an example are a fixed function of both.          *)

Params == 0..(NumParams - 1)

LogitTable == << <<0, 0>>, <<2, 0>>, <<0, 1>>, <<1, 0>> >>

Forward(params, id) == LogitTable[((params * id) % Len(LogitTable)) + 1]

Width == Len(LogitTable[1])

\* F.softmax(output, dim=1) of one row of logits
Softmax(logits) ==
    LET tot == ISum([c \in 1..Len(logits) |-> Pow2(logits[c])])
    IN  [c \in 1..Len(logits) |-> Rat(Pow2(logits[c]), tot)]

\* -log_softmax(logits)[t] in 1/1000 nat: F.nll_loss(F.log_softmax(...), t)
NllLoss(logits, t) ==
    LnMilli(ISum([c \in 1..Len(logits) |-> Pow2(logits[c])])) - logits[t] * 693

----------------------------------------------------------------------------
(* _entropy: mean over rows of -sum(p * log(p + 1e-20)), in 1/1000 nat *)

RowEntropy(row) ==
    ISum([c \in 1..Len(row) |->
            IF row[c][1] = 0 THEN 0
            ELSE (row[c][1] * (LnMilli(row[c][2]) - LnMilli(row[c][1])))
                     \div row[c][2]])

Entropy(rows) == ISum([r \in 1..Len(rows) |-> RowEntropy(rows[r])]) \div Len(rows)

Clip(x, lo, hi) == IF x < lo THEN lo ELSE IF x > hi THEN hi ELSE x

\* Momentum without the special case of the first domain
MomentumUnforced(slp, cur, ens, domain_idx) ==
    Rat(Clip(500 + slp * (cur - ens), 0, 1000), 1000)

\* line 124: clip(0.5 + slope * (current - ensemble), 0, 1), 0 for domain 1
Momentum(slp, cur, ens, domain_idx) ==
    IF domain_idx # 1
    THEN Rat(Clip(500 + slp * (cur - ens), 0, 1000), 1000)
    ELSE RZero

\* line 132: momentum * Z[idx] + (1 - momentum) * probs, one row
BlendRow(momentum, Zrow, probs) ==
    [c \in 1..Len(Zrow) |->
        RAdd(RMul(momentum, Zrow[c]), RMul(RSub(ROne, momentum), probs[c]))]

\* Normalize with the maximum norm in place of the L1 norm
NormalizeByMax(row) ==
    LET norm == RMax([c \in 1..Len(row) |-> RAbs(row[c])])
    IN  IF norm = RZero THEN row
        ELSE [c \in 1..Len(row) |-> RDiv(row[c], norm)]

\* line 133: F.normalize(row, p=1) = row / max(||row||_1, eps); a zero row
\* stays zero, and every non-zero norm of the model is far above eps = 1e-12
Normalize(row) ==
    LET norm == RSum([c \in 1..Len(row) |-> RAbs(row[c])])
    IN  IF norm = RZero THEN row
        ELSE [c \in 1..Len(row) |-> RDiv(row[c], norm)]

ZeroRow == [c \in 1..Width |-> RZero]

----------------------------------------------------------------------------
(* _update_Z *)

\* BlendLoader writing every row of the store, not only those of the batch
BlendLoaderAll(st, params, d) ==
    LET newZ == [id \in Ids |->
                   BlendRow(st.momentum, st.Z[id], Softmax(Forward(params, id)))]
    IN  [st EXCEPT !.Z = newZ, !.z = [id \in Ids |-> Normalize(newZ[id])]]

\* lines 127-133 for the loader of domain d: blend and renormalise its rows
BlendLoader(st, params, d) ==
    LET newZ == [id \in Ids |->
                   IF DomainOf(id) = d
                   THEN BlendRow(st.momentum, st.Z[id], Softmax(Forward(params, id)))
                   ELSE st.Z[id]]
    IN  [st EXCEPT !.Z = newZ,
                   !.z = [id \in Ids |->
                            IF DomainOf(id) = d THEN Normalize(newZ[id]) ELSE st.z[id]]]

\* lines 111-126 for the loader of domain d: bind the local momentum
BindMomentum(st, params, d, slp, domain_idx) ==
    LET ids == LoaderIds(d)
        ens == Entropy([j \in 1..Len(ids) |-> st.z[ids[j]]])
        cur == Entropy([j \in 1..Len(ids) |-> Softmax(Forward(params, ids[j]))])
    IN  [st EXCEPT !.bound = TRUE,
                   !.momentum = Momentum(slp, cur, ens, domain_idx),
                   !.ens = ens, !.cur = cur]

\* the loop of line 106 over domain2trainloader.items(), in dict order.
\* Reading the local momentum at line 132 before line 124 assigned it raises
\* UnboundLocalError (st.err).
RECURSIVE UpdateLoop(_, _, _, _, _)
UpdateLoop(st, items, params, slp, domain_idx) ==
    IF items = <<>> \/ st.err THEN st
    ELSE LET d == Head(items)
         IN  IF d < domain_idx
             THEN UpdateLoop(st, Tail(items), params, slp, domain_idx)
             ELSE LET s1 == IF d = domain_idx
                            THEN BindMomentum(st, params, d, slp, domain_idx)
                            ELSE st
                  IN  IF ~s1.bound
                      THEN [s1 EXCEPT !.err = TRUE]
                      ELSE UpdateLoop(BlendLoader(s1, params, d), Tail(items),
                                      params, slp, domain_idx)

UpdateZ(Z0, z0, params, items, slp, domain_idx) ==
    UpdateLoop([Z |-> Z0, z |-> z0, bound |-> FALSE, momentum |-> RZero,
                ens |-> 0, cur |-> 0, err |-> FALSE],
               items, params, slp, domain_idx)

----------------------------------------------------------------------------
(* _calc_alpha *)

Spread(row) == RSub(RMax(row), RMin(row))

RECURSIVE Insert(_, _)
Insert(x, s) == IF s = <<>> THEN <<x>>
                ELSE IF RLeq(x, Head(s)) THEN <<x>> \o s
                ELSE <<Head(s)>> \o Insert(x, Tail(s))

RECURSIVE Sort(_)
Sort(s) == IF s = <<>> THEN <<>> ELSE Insert(Head(s), Sort(Tail(s)))

\* torch.quantile(v, q), linear interpolation between the two closest ranks
Quantile(v, q) ==
    LET sorted == Sort(v)
        pos == RMul(q, <<Len(v) - 1, 1>>)
        lo == pos[1] \div pos[2]
        hi == IF lo + 1 < Len(v) THEN lo + 1 ELSE lo
        frac == RSub(pos, <<lo, 1>>)
    IN  RAdd(sorted[lo + 1], RMul(frac, RSub(sorted[hi + 1], sorted[lo + 1])))

CalcAlpha(Zs, ids, confidence_q) ==
    Quantile([j \in 1..Len(ids) |-> Spread(Zs[ids[j]])], confidence_q)

----------------------------------------------------------------------------
(* _pseudo_label_loss *)

Count(mask) == Cardinality({j \in 1..Len(mask) : mask[j]})

\* PseudoLabelLoss with the mask confidence > alpha
PseudoLabelLossStrict(student_logits, ensemble_probs, alph) ==
    LET n == Len(student_logits)
        mask == [j \in 1..n |-> RLess(alph, RSub(RMax(ensemble_probs[j]),
                                                 RMin(ensemble_probs[j])))]
        teacher_pred == [j \in 1..n |-> ArgMax(ensemble_probs[j])]
        masked == [j \in 1..n |->
                     IF mask[j] THEN NllLoss(student_logits[j], teacher_pred[j])
                     ELSE 0]
    IN  [loss |-> Rat(ISum(masked), n), mask |-> mask]

\* loss is a fraction of 1/1000 nat; .mean() of line 154 divides by the
\* number of rows of the batch
PseudoLabelLoss(student_logits, ensemble_probs, alph) ==
    LET n == Len(student_logits)
        mask == [j \in 1..n |-> RLeq(alph, Spread(ensemble_probs[j]))]
        teacher_pred == [j \in 1..n |-> ArgMax(ensemble_probs[j])]
        masked == [j \in 1..n |->
                     IF mask[j] THEN NllLoss(student_logits[j], teacher_pred[j])
                     ELSE 0]
    IN  [loss |-> Rat(ISum(masked), n), mask |-> mask]

----------------------------------------------------------------------------
(* Objects, the sweep result and best-model selection *)

\* DeepCopy returning the object itself
DeepCopyAlias(hp, ref) == [ref |-> ref, heap |-> hp]

\* deepcopy(obj): a new object with the same parameters
DeepCopy(hp, ref) ==
    LET new == CHOOSE r \in 1..(Cardinality(DOMAIN hp) + 1) :
                  /\ r \notin DOMAIN hp
                  /\ \A r2 \in 1..(r - 1) : r2 \in DOMAIN hp
    IN  [ref |-> new,
         heap |-> [r \in DOMAIN hp \cup {new} |-> IF r = new THEN hp[ref] ELSE hp[r]]]

\* performance_dict[confidence_q] = {...}: a dict keeps the position of the
\* first insertion of a key and the value of the last
DictSet(dict, entry) ==
    IF \E k \in 1..Len(dict) : dict[k].q = entry.q
    THEN [k \in 1..Len(dict) |-> IF dict[k].q = entry.q THEN entry ELSE dict[k]]
    ELSE Append(dict, entry)

\* Better with >= in place of >
BetterOrEqual(score, best_score) == score >= best_score

\* line 169
Better(score, best_score) == score > best_score

\* lines 166-171; best = 0 stands for best_model = None, best_score = -inf
RECURSIVE SelectLoop(_, _, _)
SelectLoop(dict, k, best) ==
    IF k > Len(dict) THEN best
    ELSE IF best = 0 \/ Better(dict[k].score, dict[best].score)
         THEN SelectLoop(dict, k + 1, k)
         ELSE SelectLoop(dict, k + 1, best)

SelectBest(dict) == SelectLoop(dict, 1, 0)

----------------------------------------------------------------------------
(* State *)

VARIABLES
    Z, z,               \* self.Z, self.z: one row per example id
    slope,              \* self.slope
    heap,               \* the network objects alive: reference -> parameters
    model,              \* self.model, a reference
    pl_acc_list,        \* self.pl_acc_list
    pc,                 \* position of the caller: idle, or inside adapt
    fault,              \* the exception that left adapt, if any
    calls,              \* calls of adapt so far
    hist,               \* the domain_idx of every call of adapt so far
    domain_idx, items,  \* arguments of adapt; items is the dict order
    qlist, epochs,      \* confidence_q_list, args.adapt_epochs
    i,                  \* position in confidence_q_list
    performance_dict,   \* entries [q, model, score, run]
    runs,               \* score of every run of the sweep, in run order
    committed,          \* the run whose model the last commit copied
    alpha, cand, e, b,  \* locals of _adapt_train_eval / _adapt_train_epoch
    total_loss, total_num,
    lastPL,             \* last value returned by _pseudo_label_loss
    log                 \* the values printed by line 126

vars == <<Z, z, slope, heap, model, pl_acc_list, pc, fault, calls, hist,
          domain_idx, items, qlist, epochs, i, performance_dict, runs,
          committed, alpha, cand, e, b, total_loss, total_num, lastPL, log>>

Slopes == {0, 1000}
Qs == {<<0, 1>>, <<1, 2>>, <<1, 1>>}
Scores == 1..NumScores
QLists == UNION {[1..n -> Qs] : n \in 0..MaxSweep}
ItemOrders == {s \in [1..NumDomains -> Domains] :
                 \A x, y \in 1..NumDomains : s[x] = s[y] => x = y}

NoPL == [loss |-> RZero, mask |-> <<>>]
NoLog == [momentum |-> RZero, ens |-> 0, cur |-> 0]

\* __init__; Z and z are initialized to 0 (line 79)
Init ==
    /\ Z = [id \in Ids |-> ZeroRow]
    /\ z = [id \in Ids |-> ZeroRow]
    /\ slope \in Slopes
    /\ \E p \in Params : heap = [r \in {1} |-> p]
    /\ model = 1
    /\ pl_acc_list = <<>>
    /\ pc = "idle" /\ fault = "none" /\ calls = 0 /\ hist = <<>>
    /\ domain_idx = 0 /\ items = <<>> /\ qlist = <<>> /\ epochs = 0
    /\ i = 0 /\ performance_dict = <<>> /\ runs = <<>> /\ committed = 0
    /\ alpha = RZero /\ cand = 0 /\ e = 0 /\ b = 0
    /\ total_loss = RZero /\ total_num = 0
    /\ lastPL = NoPL /\ log = NoLog

\* adapt is called: lines 157-159
AdaptCall ==
    /\ pc = "idle" /\ calls < MaxAdapts
    /\ \E d \in Domains, ord \in ItemOrders, ql \in QLists, ep \in 1..MaxEpochs :
          /\ domain_idx' = d /\ items' = ord /\ qlist' = ql /\ epochs' = ep
          /\ hist' = Append(hist, d)
          /\ pc' = IF ql = <<>> THEN "select" ELSE "update"
    /\ calls' = calls + 1
    /\ i' = 1 /\ performance_dict' = <<>> /\ runs' = <<>> /\ committed' = 0
    /\ UNCHANGED <<Z, z, slope, heap, model, pl_acc_list, fault, alpha, cand,
                   e, b, total_loss, total_num, lastPL, log>>

\* _adapt_train_eval, line 80: the whole of _update_Z
UpdateStore ==
    /\ pc = "update"
    /\ LET r == UpdateZ(Z, z, heap[model], items, slope, domain_idx)
       IN  /\ Z' = r.Z /\ z' = r.z
           /\ IF r.err
              THEN /\ pc' = "error" /\ fault' = "UnboundLocalError"
                   /\ log' = log
              ELSE /\ pc' = "alpha" /\ fault' = fault
                   /\ log' = [momentum |-> r.momentum, ens |-> r.ens, cur |-> r.cur]
    /\ UNCHANGED <<slope, heap, model, pl_acc_list, calls, hist, domain_idx,
                   items, qlist, epochs, i, performance_dict, runs, committed,
                   alpha, cand, e, b, total_loss, total_num, lastPL>>

\* _adapt_train_eval, lines 81-87: alpha, the candidate copy, first epoch
CalcAlphaClone ==
    /\ pc = "alpha"
    /\ alpha' = CalcAlpha(Z, LoaderIds(domain_idx), qlist[i])
    /\ LET c == DeepCopy(heap, model)
       IN  cand' = c.ref /\ heap' = c.heap
    /\ e' = 1 /\ b' = 1 /\ total_loss' = RZero /\ total_num' = 0
    /\ pc' = "train"
    /\ UNCHANGED <<Z, z, slope, model, pl_acc_list, fault, calls, hist,
                   domain_idx, items, qlist, epochs, i, performance_dict, runs,
                   committed, lastPL, log>>

\* _adapt_train_epoch, lines 25-35: one batch; optimizer.step() leaves the
\* candidate with some parameters
TrainBatch ==
    /\ pc = "train"
    /\ LET ids == Loader(domain_idx)[b]
           student_logits == [j \in 1..Len(ids) |-> Forward(heap[cand], ids[j])]
           ensemble_probs == [j \in 1..Len(ids) |-> z[ids[j]]]
           pl == PseudoLabelLoss(student_logits, ensemble_probs, alpha)
       IN  /\ lastPL' = pl
           /\ total_loss' = RAdd(total_loss, RMul(pl.loss, <<Count(pl.mask), 1>>))
           /\ total_num' = total_num + Count(pl.mask)
    /\ \E p \in Params : heap' = [heap EXCEPT ![cand] = p]
    /\ IF b < NumBatches
       THEN b' = b + 1 /\ pc' = "train"
       ELSE b' = b /\ pc' = "epochend"
    /\ UNCHANGED <<Z, z, slope, model, pl_acc_list, fault, calls, hist,
                   domain_idx, items, qlist, epochs, i, performance_dict, runs,
                   committed, alpha, cand, e, log>>

\* _oracle_eval_epoch: accuracy of the pseudo-labels argmax(z[idx])
PlAcc(zs, ids) ==
    Rat(Cardinality({j \in 1..Len(ids) : ArgMax(zs[ids[j]]) = Label(ids[j])}),
        Len(ids))

\* lines 36-39 and 89-95, then line 164: the end of an epoch, and after the
\* last epoch the end of the run
EpochEnd ==
    /\ pc = "epochend"
    /\ IF total_num = 0
       THEN /\ pc' = "error" /\ fault' = "ZeroDivisionError"
            /\ UNCHANGED <<heap, pl_acc_list, i, performance_dict, runs, e, b,
                           total_loss, total_num>>
       ELSE /\ fault' = fault
            /\ IF e < epochs
               THEN /\ e' = e + 1 /\ b' = 1
                    /\ total_loss' = RZero /\ total_num' = 0
                    /\ pc' = "train"
                    /\ UNCHANGED <<heap, pl_acc_list, i, performance_dict, runs>>
               ELSE \E train_score \in Scores :
                    LET entry == [q |-> qlist[i], model |-> cand,
                                  score |-> train_score, run |-> i]
                        dict == DictSet(performance_dict, entry)
                        live == {model} \cup {dict[k].model : k \in 1..Len(dict)}
                    IN  /\ pl_acc_list' =
                              Append(pl_acc_list, PlAcc(z, LoaderIds(domain_idx)))
                        /\ performance_dict' = dict
                        /\ runs' = Append(runs, train_score)
                        /\ heap' = [r \in live |-> heap[r]]
                        /\ i' = i + 1
                        /\ pc' = IF i < Len(qlist) THEN "update" ELSE "select"
                        /\ UNCHANGED <<e, b, total_loss, total_num>>
    /\ UNCHANGED <<Z, z, slope, model, calls, hist, domain_idx, items, qlist,
                   epochs, committed, alpha, cand, lastPL, log>>

\* lines 166-173: selection and commit; deepcopy(None).to raises
\* AttributeError when no entry was selected
SelectCommit ==
    /\ pc = "select"
    /\ LET best == SelectBest(performance_dict)
       IN  IF best = 0
           THEN /\ pc' = "error" /\ fault' = "AttributeError"
                /\ UNCHANGED <<heap, model, committed, performance_dict>>
           ELSE LET c == DeepCopy(heap, performance_dict[best].model)
                IN  /\ model' = c.ref
                    /\ heap' = [r \in {c.ref} |-> c.heap[r]]
                    /\ committed' = performance_dict[best].run
                    /\ performance_dict' = <<>>
                    /\ pc' = "idle" /\ fault' = fault
    /\ UNCHANGED <<Z, z, slope, pl_acc_list, calls, hist, domain_idx, items,
                   qlist, epochs, i, runs, alpha, cand, e, b, total_loss,
                   total_num, lastPL, log>>

Next ==
    \/ AdaptCall
    \/ UpdateStore
    \/ CalcAlphaClone
    \/ TrainBatch
    \/ EpochEnd
    \/ SelectCommit

Spec == Init /\ [][Next]_vars

----------------------------------------------------------------------------
(* Properties *)

IdsFrom(d) == {id \in Ids : DomainOf(id) >= d}
Probs(id) == Softmax(Forward(heap[model], id))
UpdateDone == pc = "update" /\ pc' = "alpha"

C2_SweepUpdateIdempotent ==
    [][(
       (UpdateDone /\ i > 1) => (Z' = Z /\ z' = z)
    )]_vars

\* C3: from the start of adapt until the commit statement self.model is the
\* same object with the same parameters and is no candidate of the sweep;
\* the commit makes self.model a new object, distinct from every object alive
\* before it, carrying the parameters of the selected candidate.
C3_CurrentModelIsolated ==
    [][(
       pc \in {"update", "alpha", "train", "epochend", "select"} =>
            IF pc = "select" /\ pc' = "idle"
            THEN /\ model' \notin DOMAIN heap
                 /\ \E k \in 1..Len(performance_dict) :
                       /\ performance_dict[k].run = committed'
                       /\ heap'[model'] = heap[performance_dict[k].model]
            ELSE /\ model' = model
                 /\ heap'[model'] = heap[model]
                 /\ \A k \in 1..Len(performance_dict') :
                       performance_dict'[k].model # model'
                 /\ pc' \in {"train", "epochend"} => cand' # model'
    )]_vars

C3_Witness ==
    /\ pc = "epochend" /\ i = 2
    /\ heap[cand] # heap[model]
    /\ heap[performance_dict[1].model] # heap[model]

FirstOcc(ql, k) == CHOOSE k0 \in 1..k :
                      /\ ql[k0] = ql[k]
                      /\ \A k1 \in 1..(k0 - 1) : ql[k1] # ql[k]
Retained(ql) == {k \in 1..Len(ql) : \A k2 \in (k + 1)..Len(ql) : ql[k2] # ql[k]}

C5_MomentumForcedOnFirstDomain ==
    [][(
       UpdateDone =>
            LET ids == LoaderIds(domain_idx)
                ens == Entropy([j \in 1..Len(ids) |-> z[ids[j]]])
                cur == Entropy([j \in 1..Len(ids) |-> Probs(ids[j])])
            IN  IF domain_idx = 1
                THEN /\ log'.momentum = RZero
                     /\ \A id \in IdsFrom(1) : Z'[id] = Probs(id)
                ELSE log'.momentum =
                         Rat(Clip(500 + slope * (cur - ens), 0, 1000), 1000)
    )]_vars

C5_Witness ==
    /\ pc = "alpha" /\ domain_idx = 1 /\ log.momentum = RZero
    /\ Clip(500 + slope * (log.cur - log.ens), 0, 1000) > 0
    /\ calls = 2 /\ \E id \in Ids : Z[id] # ZeroRow

Nondecreasing(h) == \A x, y \in 1..Len(h) : x <= y => h[x] <= h[y]

\* C6: a row of Z or z changes only in _update_Z and only if its example is
\* in a domain with index >= domain_idx; so while the calls of adapt so far
\* have non-decreasing domain indices, no row of a domain below an index
\* already processed changes.
C6_PastDomainsFrozen ==
    [][(
       \A id \in Ids :
             (Z'[id] # Z[id] \/ z'[id] # z[id]) =>
                 /\ pc = "update"
                 /\ DomainOf(id) >= domain_idx
                 /\ Nondecreasing(hist) =>
                       \A x \in 1..Len(hist) : DomainOf(id) >= hist[x]
    )]_vars

C6_Witness ==
    /\ pc = "alpha" /\ Len(hist) = 2 /\ hist[1] < hist[2]
    /\ log.momentum # ROne
    /\ \E id \in Ids : DomainOf(id) < domain_idx /\ Z[id] # ZeroRow

\* C7: the loss returned for a batch in which some example passes the mask
\* is the sum of the nll of the examples with spread >= alpha divided by the
\* number of those examples.
C7_LossIsMeanOverMasked ==
    [][(
       pc = "train" =>
            LET ids == Loader(domain_idx)[b]
                on == {j \in 1..Len(ids) : RLeq(alpha, Spread(z[ids[j]]))}
                nll == [j \in 1..Len(ids) |->
                          IF j \in on
                          THEN NllLoss(Forward(heap[cand], ids[j]), ArgMax(z[ids[j]]))
                          ELSE 0]
            IN  on # {} => lastPL'.loss = Rat(ISum(nll), Cardinality(on))
    )]_vars

\* C8: adapt does not return normally after _pseudo_label_loss was given a
\* batch of which no example passes the mask: a fault reaches the caller.
C8_EmptyMaskFaults ==
    (lastPL.mask # <<>> /\ Count(lastPL.mask) = 0 /\ pc \in {"idle", "error"})
        => fault # "none"

\* C9: every _update_Z completes, whatever the order of the items of
\* domain2trainloader, and blends every row of a domain with index >=
\* domain_idx with the one momentum computed from the loader of domain_idx
\* and the store as it was when the call began.
C9_OneMomentumForEveryOrder ==
    [][(
       pc = "update" =>
            LET ids == LoaderIds(domain_idx)
                ens == Entropy([j \in 1..Len(ids) |-> z[ids[j]]])
                cur == Entropy([j \in 1..Len(ids) |-> Probs(ids[j])])
                m == Momentum(slope, cur, ens, domain_idx)
            IN  /\ pc' = "alpha"
                /\ \A id \in IdsFrom(domain_idx) :
                      Z'[id] = BlendRow(m, Z[id], Probs(id))
    )]_vars

MaxSpread(zs, ids) == RMax([j \in 1..Len(ids) |-> Spread(zs[ids[j]])])

====
